---------------------------- MODULE Spec2Model ----------------------------
(***************************************************************************)
(* State-machine model of src/main.py, the Streamlit document extractor:   *)
(* one Streamlit session (st.session_state plus the widgets whose value    *)
(* persists between script runs) and one action per user interaction,      *)
(* each of which is a complete top-to-bottom run of the script.             *)
(*                                                                         *)
(* Numbers.  Python floats are modelled as exact rationals [n, d] in        *)
(* lowest terms with d > 0, so int(x) (truncation toward zero) and the      *)
(* divisions of the scale computation are computed, not assumed.            *)
(* Text is a sequence of character codes (NL = newline, SP = space).        *)
(* Field names and dictionary keys are tuples standing for the strings      *)
(* the code builds: <<"Field", 3>> is "Field_3", <<"region", i, l, t>> is   *)
(* "region_i_l_t", <<"Page">> is "Page".                                    *)
(***************************************************************************)
EXTENDS Integers, Sequences, FiniteSets, TLC

\* ------------------------------------------------------------- bounds
\* Longest uploaded document, in pages.
MaxPages == 2
\* Most rectangles the user draws on the canvas.
MaxRegions == 2
\* The consecutive st.rerun() count is kept modulo RerunWrap.
RerunWrap == 2

\* --------------------------------------------------- program constants
\* canvas_width = 800
canvas_width == 800

\* ---------------------------------------------------------- rationals
Abs(x) == IF x < 0 THEN -x ELSE x

RECURSIVE GCD(_, _)
GCD(a, b) == IF b = 0 THEN a ELSE GCD(b, a % b)

\* The rational n/d (d # 0) in lowest terms with a positive denominator.
Rat(n, d) ==
    LET g == GCD(Abs(n), Abs(d))
        s == IF d < 0 THEN -1 ELSE 1
    IN  [n |-> (s * n) \div g, d |-> (s * d) \div g]

RInt(k) == [n |-> k, d |-> 1]
RMul(x, y) == Rat(x.n * y.n, x.d * y.d)
RDiv(x, y) == Rat(x.n * y.d, x.d * y.n)
RPos(x) == x.n > 0

\* Python int(x) on a float: truncation toward zero.
PyInt(x) == IF x.n >= 0 THEN x.n \div x.d ELSE -((-x.n) \div x.d)

\* ------------------------------------------------------------ helpers
Range(s) == {s[i] : i \in 1..Len(s)}

SeqsUpTo(S, n) == UNION {[1..k -> S] : k \in 1..n}

EmptyDict == [k \in {} |-> <<>>]

\* dict.get(key, default)
DictGet(dict, key, default) ==
    IF key \in DOMAIN dict THEN dict[key] ELSE default

\* dict[key] = value
DictSet(dict, key, value) ==
    [k \in (DOMAIN dict) \cup {key} |-> IF k = key THEN value ELSE dict[k]]

\* ------------------------------------------------- uploaded documents
\* A page of a PDF: the pixel size its pixmap has at 150 dpi, and whether
\* load_page / get_pixmap / Image.open succeed on it.
PageKinds == {"a4", "xga", "corrupt"}

PixelWidth(kind) == IF kind = "xga" THEN 1600 ELSE 1240
PixelHeight(kind) == IF kind = "xga" THEN 1200 ELSE 1754

\* The PDF files the user may upload: 1..MaxPages pages, the readable ones
\* all of one size.
Documents ==
    {pages \in SeqsUpTo(PageKinds, MaxPages) :
        \A i, j \in 1..Len(pages) :
            pages[i] = "corrupt" \/ pages[j] = "corrupt" \/ pages[i] = pages[j]}

NoFile == [present |-> FALSE, pages |-> <<>>]

\* The PIL image of page `num` (0-based, as page_num in the code).
PageImage(kind, num) ==
    [width |-> PixelWidth(kind), height |-> PixelHeight(kind), page |-> num]

\* A rasterizer that hands back the pages made before the failure.
RECURSIVE RasterizeKeepingPages(_, _, _)
RasterizeKeepingPages(pages, num, images) ==
    IF num >= Len(pages) THEN images
    ELSE IF pages[num + 1] = "corrupt" THEN images
    ELSE RasterizeKeepingPages(pages, num + 1,
                               Append(images, PageImage(pages[num + 1], num)))

\* pdf_to_images (lines 12-32): the loop of lines 22-27 from page `num` on,
\* `images` holding the pages appended so far.  An exception anywhere in the
\* try block leaves through the except clause, which returns [].
RECURSIVE RasterizeFrom(_, _, _)
RasterizeFrom(pages, num, images) ==
    IF num >= Len(pages) THEN images
    ELSE IF pages[num + 1] = "corrupt" THEN << >>
    ELSE RasterizeFrom(pages, num + 1,
                       Append(images, PageImage(pages[num + 1], num)))

pdf_to_images(pdf) == RasterizeFrom(pdf.pages, 0, << >>)

\* ------------------------------------------------------------- strings
NL == 10
SP == 32
IsSpace(c) == c \in {NL, SP}

RECURSIVE LStrip(_)
LStrip(t) == IF t # << >> /\ IsSpace(Head(t)) THEN LStrip(Tail(t)) ELSE t

RECURSIVE RStrip(_)
RStrip(t) ==
    IF t # << >> /\ IsSpace(t[Len(t)]) THEN RStrip(SubSeq(t, 1, Len(t) - 1))
    ELSE t

\* str.strip()
Strip(t) == RStrip(LStrip(t))

\* str.replace('\n', ' ')
ReplaceNewlines(t) == [i \in 1..Len(t) |-> IF t[i] = NL THEN SP ELSE t[i]]

\* ------------------------------------------------- the drawing surface
Region(l, t, w, h) == [left |-> l, top |-> t, width |-> w, height |-> h]

\* Line 152: canvas_height = canvas_width * (bg_image.height / bg_image.width)
canvas_height(bg_image) ==
    RMul(RInt(canvas_width), RDiv(RInt(bg_image.height), RInt(bg_image.width)))

\* Lines 159-160: the size st_canvas is given, height=int(canvas_height) and
\* width=int(canvas_width).
SurfaceWidth == PyInt(RInt(canvas_width))
SurfaceHeight(bg_image) == PyInt(canvas_height(bg_image))

\* The rectangle covering the whole drawing surface.
FullCanvas(bg_image) ==
    Region(RInt(0), RInt(0), RInt(SurfaceWidth), RInt(SurfaceHeight(bg_image)))

\* A sliver half a canvas pixel wide, at a fractional position.
Sliver == Region(Rat(21, 2), Rat(41, 2), Rat(1, 2), RInt(30))

\* The rectangles the user may draw on the surface shown over bg_image.
DrawableRects(bg_image) == {FullCanvas(bg_image), Sliver}

NoCanvas == [isNone |-> TRUE, objects |-> << >>]
CanvasJson(objs) == [isNone |-> FALSE, objects |-> objs]

\* `st.session_state.canvas_json and st.session_state.canvas_json.get("objects")`
HasObjects(cj) == ~cj.isNone /\ cj.objects # << >>

\* ---------------------------------------------------------- field names
\* Line 176: f"region_{i}_{int(region['left'])}_{int(region['top'])}"
NamingKey(i, region) == <<"region", i, PyInt(region.left), PyInt(region.top)>>

\* The key built from the 1-based ordinal.
ExtractKeyOneBased(i, region) ==
    <<"region", i + 1, PyInt(region.left), PyInt(region.top)>>

\* Line 205: the same expression, evaluated again in the extract handler.
ExtractKey(i, region) == <<"region", i, PyInt(region.left), PyInt(region.top)>>

\* f"Field_{i+1}"
DefaultName(i) == <<"Field", i + 1>>

\* st.text_input(label, value=default_name, key=f"field_name_{i}"): the text
\* the user submitted for input i in this interaction, else `value`.
TextInput(typed, i, value) == IF i \in DOMAIN typed THEN typed[i] ELSE value

\* Lines 175-180: the form's loop from index i on; names is
\* st.session_state.field_names as written so far.
RECURSIVE FieldNamesForm(_, _, _, _)
FieldNamesForm(regions, i, names, typed) ==
    IF i >= Len(regions) THEN names
    ELSE LET region_key == NamingKey(i, regions[i + 1])
             default_name == DictGet(names, region_key, DefaultName(i))
         IN  FieldNamesForm(regions, i + 1,
                 DictSet(names, region_key, TextInput(typed, i, default_name)),
                 typed)

\* ------------------------------------------------------------------ OCR
\* What the environment does to one perform_ocr call: nothing ("ok"), make
\* image.crop / preprocess_image raise ("crop"), or make
\* pytesseract.image_to_string raise ("ocr").
Outcomes == {"ok", "crop", "ocr"}

Glyph(k) == 1000 + k

\* pytesseract.image_to_string on the crop (left, top, width, height) of
\* `image`: text that depends on the page and on the crop, with the leading,
\* embedded and trailing whitespace Tesseract emits.
ImageToString(image, left, top, width, height) ==
    <<SP, Glyph(image.page), NL, Glyph(left), Glyph(top), SP,
      Glyph(width), Glyph(height), NL>>

\* Line 69: text.strip().replace('\n', ' ')
CleanText(text) == ReplaceNewlines(Strip(text))

\* The try block with `or` for `and` in the guard of line 56.
OcrTryEitherSide(image, bounding_box, outcome) ==
    LET left == PyInt(bounding_box.left)
        top == PyInt(bounding_box.top)
        width == PyInt(bounding_box.width)
        height == PyInt(bounding_box.height)
    IN  IF width > 0 \/ height > 0
        THEN IF outcome = "crop"
             THEN [returned |-> FALSE, ret |-> << >>, calls |-> 0, exc |-> TRUE]
             ELSE IF outcome = "ocr"
             THEN [returned |-> FALSE, ret |-> << >>, calls |-> 1, exc |-> TRUE]
             ELSE [returned |-> TRUE,
                   ret |-> CleanText(ImageToString(image, left, top, width, height)),
                   calls |-> 1, exc |-> FALSE]
        ELSE [returned |-> FALSE, ret |-> << >>, calls |-> 0, exc |-> FALSE]

\* The try block of perform_ocr (lines 50-69).  `returned` says whether line
\* 69 returned `ret`, `exc` whether an exception left the block, `calls` is
\* the number of image_to_string invocations.
OcrTry(image, bounding_box, outcome) ==
    LET left == PyInt(bounding_box.left)
        top == PyInt(bounding_box.top)
        width == PyInt(bounding_box.width)
        height == PyInt(bounding_box.height)
    IN  IF width > 0 /\ height > 0
        THEN IF outcome = "crop"
             THEN [returned |-> FALSE, ret |-> << >>, calls |-> 0, exc |-> TRUE]
             ELSE IF outcome = "ocr"
             THEN [returned |-> FALSE, ret |-> << >>, calls |-> 1, exc |-> TRUE]
             ELSE [returned |-> TRUE,
                   ret |-> CleanText(ImageToString(image, left, top, width, height)),
                   calls |-> 1, exc |-> FALSE]
        ELSE [returned |-> FALSE, ret |-> << >>, calls |-> 0, exc |-> FALSE]

\* perform_ocr without its except clause: the exception leaves the function.
perform_ocr_uncaught(image, bounding_box, outcome) ==
    LET body == OcrTry(image, bounding_box, outcome)
    IN  [ret |-> body.ret, calls |-> body.calls, raised |-> body.exc]

\* perform_ocr (lines 47-72): the try block, the except clause of lines
\* 70-71 (which warns and falls through) and the `return ""` of line 72.
\* `raised` says whether an exception leaves the function.
perform_ocr(image, bounding_box, outcome) ==
    LET body == OcrTry(image, bounding_box, outcome)
    IN  IF body.returned
        THEN [ret |-> body.ret, calls |-> body.calls, raised |-> FALSE]
        ELSE IF body.exc
        THEN \* except Exception: st.warning(...), then line 72
             [ret |-> << >>, calls |-> body.calls, raised |-> FALSE]
        ELSE [ret |-> << >>, calls |-> body.calls, raised |-> FALSE]

\* ----------------------------------------------------------- extraction
\* Lines 199-200.
scale_w(bg_image) == RDiv(RInt(bg_image.width), RInt(canvas_width))
scale_h(bg_image) == RDiv(RInt(bg_image.height), canvas_height(bg_image))

\* Lines 207-210: one region scaled to the template page.
ScaledBox(region, bg_image) ==
    Region(RMul(region.left, scale_w(bg_image)),
           RMul(region.top, scale_h(bg_image)),
           RMul(region.width, scale_w(bg_image)),
           RMul(region.height, scale_h(bg_image)))

\* Lines 204-210: scaled_boxes.
scaled_boxes(regions, bg_image) ==
    [j \in 1..Len(regions) |-> ScaledBox(regions[j], bg_image)]

\* Lines 204-206: field_names_list.
field_names_list(regions, names) ==
    [j \in 1..Len(regions) |->
        DictGet(names, ExtractKey(j - 1, regions[j]), DefaultName(j - 1))]

\* A Python dict in insertion order, as a sequence of <<key, value>> items.
Keys(d) == [k \in 1..Len(d) |-> d[k][1]]
Lookup(d, key) == (CHOOSE k \in 1..Len(d) : d[k][1] = key)

\* A dict that kept both items under one key.
SetItemKeepingBoth(d, key, value) == Append(d, <<key, value>>)

\* d[key] = value: a new key goes last, a present key keeps its place.
SetItem(d, key, value) ==
    IF key \in Range(Keys(d))
    THEN [k \in 1..Len(d) |-> IF d[k][1] = key THEN <<key, value>> ELSE d[k]]
    ELSE Append(d, <<key, value>>)

IntCell(k) == [int |-> k]
StrCell(t) == [str |-> t]
PageColumn == <<"Page">>

\* Lines 216-218: the inner loop over scaled_boxes from box j (1-based here)
\* on, writing into page_data.  results[j] is perform_ocr's result for box j.
RECURSIVE FillPage(_, _, _, _)
FillPage(page_data, names_list, results, j) ==
    IF j > Len(names_list) THEN page_data
    ELSE FillPage(SetItem(page_data, names_list[j], StrCell(results[j].ret)),
                  names_list, results, j + 1)

\* Lines 215-219: page_data of page i (0-based, as enumerate gives it).
PageData(i, names_list, results) ==
    FillPage(<< <<PageColumn, IntCell(i + 1)>> >>, names_list, results, 1)

NoData == [isNone |-> TRUE, columns |-> << >>, rows |-> << >>]

\* Line 220: pd.DataFrame(all_pages_data), columns in the key order of the
\* dicts, one row per dict.
DataFrame(data) ==
    [isNone |-> FALSE,
     columns |-> IF data = << >> THEN << >> ELSE Keys(data[1]),
     rows |-> [r \in 1..Len(data) |->
                 [c \in Range(Keys(data[r])) |-> data[r][Lookup(data[r], c)][2]]]]

\* Lines 213-219: perform_ocr for every page and box; outcome[i][j] is what
\* the environment does to the call for page i, box j (both 1-based here).
OcrResults(images, boxes, outcome) ==
    [i \in 1..Len(images) |->
        [j \in 1..Len(boxes) |-> perform_ocr(images[i], boxes[j], outcome[i][j])]]

all_pages_data(images, names_list, results) ==
    [i \in 1..Len(images) |-> PageData(i - 1, names_list, results[i])]

\* ------------------------------------------------------- template files
\* A writer that drops the decimals.
JsonNumberWhole(x) ==
    [neg |-> x.n < 0, whole |-> Abs(x.n) \div x.d, tenths |-> 0]

\* json.dumps of a number: sign, integer part and first decimal digit (the
\* coordinates of the model have at most one).
JsonNumber(x) ==
    [neg |-> x.n < 0,
     whole |-> Abs(x.n) \div x.d,
     tenths |-> ((Abs(x.n) % x.d) * 10) \div x.d]

\* json.load of a number.
ParseNumber(j) ==
    Rat((IF j.neg THEN -1 ELSE 1) * (j.whole * 10 + j.tenths), 10)

JsonRect(r) ==
    [left |-> JsonNumber(r.left), top |-> JsonNumber(r.top),
     width |-> JsonNumber(r.width), height |-> JsonNumber(r.height)]

ParseRect(j) ==
    Region(ParseNumber(j.left), ParseNumber(j.top),
           ParseNumber(j.width), ParseNumber(j.height))

\* json.dumps of canvas_json (None is written as null).
JsonCanvas(cj) ==
    [isNone |-> cj.isNone,
     objects |-> [k \in 1..Len(cj.objects) |-> JsonRect(cj.objects[k])]]

ParseCanvas(j) ==
    [isNone |-> j.isNone,
     objects |-> [k \in 1..Len(j.objects) |-> ParseRect(j.objects[k])]]

\* json.dumps of a dict with string keys and values: its members, in order.
RECURSIVE JsonObject(_)
JsonObject(dict) ==
    IF DOMAIN dict = {} THEN << >>
    ELSE LET key == CHOOSE k \in DOMAIN dict : TRUE
         IN  <<<<key, dict[key]>>>> \o
             JsonObject([k \in (DOMAIN dict) \ {key} |-> dict[k]])

\* json.load of an object: a later member replaces an earlier one of its key.
RECURSIVE ParseObject(_)
ParseObject(members) ==
    IF members = << >> THEN EmptyDict
    ELSE LET m == members[Len(members)]
         IN  DictSet(ParseObject(SubSeq(members, 1, Len(members) - 1)), m[1], m[2])

\* Lines 185-191: json.dumps(template_to_save).
SerializeTemplate(cj, names) ==
    [has_regions |-> TRUE, regions |-> JsonCanvas(cj),
     has_field_names |-> TRUE, field_names |-> JsonObject(names)]

\* A template file with some of its keys removed by hand.
DropKeys(doc, drop_regions, drop_names) ==
    [has_regions |-> doc.has_regions /\ ~drop_regions,
     regions |-> IF drop_regions THEN JsonCanvas(NoCanvas) ELSE doc.regions,
     has_field_names |-> doc.has_field_names /\ ~drop_names,
     field_names |-> IF drop_names THEN << >> ELSE doc.field_names]

\* The file holding just "{}".
EmptyDocument ==
    [has_regions |-> FALSE, regions |-> JsonCanvas(NoCanvas),
     has_field_names |-> FALSE, field_names |-> << >>]

\* Line 132: template_data.get("regions", None)
TemplateRegions(doc) ==
    IF doc.has_regions THEN ParseCanvas(doc.regions) ELSE NoCanvas

\* Line 133: template_data.get("field_names", {})
TemplateFieldNames(doc) ==
    IF doc.has_field_names THEN ParseObject(doc.field_names) ELSE EmptyDict

\* ---------------------------------------------------------------- state
VARIABLES
    uploaded_file,      \* the PDF in the sidebar's file_uploader, or NoFile
    uploaded_template,  \* the file in the "Load Template" uploader
    pdf_images,         \* st.session_state.pdf_images
    extracted_data,     \* st.session_state.extracted_data
    field_names,        \* st.session_state.field_names
    canvas_json,        \* st.session_state.canvas_json
    pc,                 \* "idle": the run ended; "rerun": st.rerun() was called
    reruns,             \* consecutive st.rerun() calls, modulo RerunWrap
    last                \* what the last script run did, showed and handed out

vars == <<uploaded_file, uploaded_template, pdf_images, extracted_data,
          field_names, canvas_json, pc, reruns, last>>

NoTemplate == [present |-> FALSE, doc |-> EmptyDocument]

\* The widget inputs of a run in which the user pressed and typed nothing:
\* the drawing surface reports no new drawing.
NoInput ==
    [clear |-> FALSE, json_data |-> NoCanvas, typed |-> EmptyDict,
     save |-> FALSE, extract |-> FALSE, outcome |-> << >>]

\* What the environment may do to the perform_ocr calls of one extraction
\* over P pages and R boxes: nothing, or (when may_fail) fail exactly one call.
AllOk(P, R) == [i \in 1..P |-> [j \in 1..R |-> "ok"]]

Failed(outcome) ==
    \E i \in DOMAIN outcome : \E j \in DOMAIN outcome[i] : outcome[i][j] # "ok"

OutcomePatterns(P, R, may_fail) ==
    {AllOk(P, R)} \cup
    (IF may_fail
     THEN {[i \in 1..P |-> [j \in 1..R |->
               IF i = fi /\ j = fj THEN kind ELSE "ok"]] :
              fi \in 1..P, fj \in 1..R, kind \in {"crop", "ocr"}}
     ELSE {})

\* Lines 82-89.
Init ==
    /\ uploaded_file = NoFile
    /\ uploaded_template = NoTemplate
    /\ pdf_images = << >>
    /\ extracted_data = NoData
    /\ field_names = EmptyDict
    /\ canvas_json = NoCanvas
    /\ pc = "idle"
    /\ reruns = 0
    /\ last = [op |-> "start"]

\* ------------------------------------------------------- the script run
\* Lines 99-102: "Clear and Restart" deletes every session key and reruns;
\* lines 82-89 of the next run put the defaults back.
ClearSession ==
    /\ pdf_images' = << >>
    /\ extracted_data' = NoData
    /\ field_names' = EmptyDict
    /\ canvas_json' = NoCanvas
    /\ pc' = "rerun"
    /\ reruns' = (reruns + 1) % RerunWrap
    /\ last' = [op |-> "clear"]

\* A load that adds the file's names to the session's (dict.update).
LoadTemplateMerging(images, file_op) ==
    /\ pdf_images' = images
    /\ canvas_json' = TemplateRegions(uploaded_template'.doc)
    /\ field_names' =
          [k \in (DOMAIN field_names) \cup
                 DOMAIN TemplateFieldNames(uploaded_template'.doc) |->
              DictGet(TemplateFieldNames(uploaded_template'.doc), k,
                      DictGet(field_names, k, << >>))]
    /\ extracted_data' = extracted_data
    /\ pc' = "rerun"
    /\ reruns' = (reruns + 1) % RerunWrap
    /\ last' = [op |-> "load", pdf |-> file_op]

\* Lines 129-135: "Load Template".
LoadTemplate(images, file_op) ==
    /\ pdf_images' = images
    /\ canvas_json' = TemplateRegions(uploaded_template'.doc)
    /\ field_names' = TemplateFieldNames(uploaded_template'.doc)
    /\ extracted_data' = extracted_data
    /\ pc' = "rerun"
    /\ reruns' = (reruns + 1) % RerunWrap
    /\ last' = [op |-> "load", pdf |-> file_op]

\* Lines 197-222: the extract button's handler, for the regions and names
\* the run has at that point.  (A value bound by \E x \in {e} is computed
\* once, as the assignment it stands for.)
ExtractHandler(images, bg_image, regions, names, outcome) ==
    \E boxes \in {scaled_boxes(regions, bg_image)},
       names_list \in {field_names_list(regions, names)} :
    \E results \in {OcrResults(images, boxes, outcome)} :
    \E aborted \in {\E i \in 1..Len(images), j \in 1..Len(boxes) :
                       results[i][j].raised} :
        /\ extracted_data' =
              IF aborted THEN extracted_data
              ELSE DataFrame(all_pages_data(images, names_list, results))
        /\ last' = [op |-> IF aborted THEN "exception" ELSE "extract",
                    bg_image |-> bg_image, regions |-> regions,
                    scaled_boxes |-> boxes, field_names_list |-> names_list,
                    results |-> results, outcome |-> outcome]

\* Lines 139-222: the main app body.  The template-page slider of lines
\* 146-148 is left at its default, 1.
MainBody(images, file_op, in) ==
    \E page_to_preview \in {1 - 1} :
    \E bg_image \in {images[page_to_preview + 1]},
       \* lines 165-166
       cj \in {IF in.json_data.isNone THEN canvas_json ELSE in.json_data} :
        /\ pdf_images' = images
        /\ canvas_json' = cj
        /\ pc' = "idle"
        /\ reruns' = 0
        /\ IF HasObjects(cj)
           THEN \E regions \in {cj.objects} :
                \E names \in {FieldNamesForm(regions, 0, field_names, in.typed)} :
                    /\ field_names' = names
                    /\ IF in.extract
                       THEN ExtractHandler(images, bg_image, regions, names,
                                           in.outcome)
                       ELSE /\ extracted_data' = extracted_data
                            /\ last' = IF in.save
                                       THEN [op |-> "save",
                                             data |-> SerializeTemplate(cj, names)]
                                       ELSE [op |-> "main", pdf |-> file_op,
                                             typed |-> in.typed]
           ELSE /\ field_names' = field_names
                /\ extracted_data' = extracted_data
                /\ last' = [op |-> "main", pdf |-> file_op, typed |-> EmptyDict]

\* One run of the script from line 76 to line 241, given the widget values
\* `input` the frontend sends with it.  uploaded_file' and uploaded_template'
\* are set by the action that starts the run.
Script(input) ==
    \E in \in {input} :
    IF uploaded_file'.present /\ in.clear
    THEN ClearSession
    ELSE \E rasterize \in {uploaded_file'.present /\ pdf_images = << >>} :
         \* lines 104-110
         \E images \in {IF rasterize THEN pdf_to_images(uploaded_file')
                        ELSE pdf_images} :
         \E file_op \in {IF ~rasterize THEN "kept"
                         ELSE IF images # << >> THEN "processed" ELSE "failed"} :
             IF images = << >>
             THEN /\ pdf_images' = images
                  /\ UNCHANGED <<extracted_data, field_names, canvas_json>>
                  /\ pc' = "idle"
                  /\ reruns' = 0
                  /\ last' = [op |-> "nopdf", pdf |-> file_op]
             ELSE IF uploaded_template'.present
             THEN LoadTemplate(images, file_op)
             ELSE MainBody(images, file_op, in)

\* --------------------------------------------------------- user actions
\* The environment is bounded as follows: a PDF is uploaded only while no
\* pages are loaded and stays in the uploader; rectangles are added, not
\* removed; once a table has been extracted the user extracts again or
\* restarts; and at most one perform_ocr call fails between two restarts.

\* The names the user types into the form.
TypedNames == {<<"Name">>, <<"Page">>}

\* A template file from an earlier session: one sliver named "Name".
StockTemplate ==
    SerializeTemplate(CanvasJson(<<Sliver>>),
                      [k \in {NamingKey(0, Sliver)} |-> <<"Name">>])

\* The files the user can hand to "Load Template": the template just saved,
\* and the stock template whole, without either of its keys, or as "{}".
AvailableTemplates ==
    {DropKeys(StockTemplate, dr, dn) : dr \in BOOLEAN, dn \in BOOLEAN} \cup
    (IF last.op = "save" THEN {last.data} ELSE {})

\* The main body was rendered by the last run and waits for input.
MainShown == pc = "idle" /\ pdf_images # << >>

\* No table has been extracted yet.
Editing == MainShown /\ extracted_data.isNone

\* Line 97: the user puts a PDF into the uploader.
UploadPdf ==
    /\ pc = "idle"
    /\ pdf_images = << >>
    /\ \E doc \in Documents : uploaded_file' = [present |-> TRUE, pages |-> doc]
    /\ uploaded_file' # uploaded_file
    /\ UNCHANGED uploaded_template
    /\ Script(NoInput)

\* Line 99: "Clear and Restart".
ClearAndRestart ==
    /\ pc = "idle"
    /\ uploaded_file.present
    /\ UNCHANGED <<uploaded_file, uploaded_template>>
    /\ Script([NoInput EXCEPT !.clear = TRUE])

\* Line 129: the user puts a file into "Load Template (.json)".
UploadTemplate ==
    /\ Editing
    /\ \E doc \in AvailableTemplates :
          uploaded_template' = [present |-> TRUE, doc |-> doc]
    /\ UNCHANGED uploaded_file
    /\ Script(NoInput)

\* The user takes the template file out of its uploader.
RemoveTemplate ==
    /\ uploaded_template.present
    /\ uploaded_template' = NoTemplate
    /\ UNCHANGED uploaded_file
    /\ Script(NoInput)

\* Lines 154-166: the user draws one more rectangle.
DrawRect ==
    /\ Editing
    /\ Len(canvas_json.objects) < MaxRegions
    /\ \E r \in DrawableRects(pdf_images[1]) :
          /\ UNCHANGED <<uploaded_file, uploaded_template>>
          /\ Script([NoInput EXCEPT
                        !.json_data = CanvasJson(Append(canvas_json.objects, r))])

\* Lines 174-182: the user types a name for one region and submits the form.
SubmitNames ==
    /\ Editing
    /\ HasObjects(canvas_json)
    /\ \E i \in 0..(Len(canvas_json.objects) - 1), name \in TypedNames :
          /\ UNCHANGED <<uploaded_file, uploaded_template>>
          /\ Script([NoInput EXCEPT !.typed = [k \in {i} |-> name]])

\* Lines 185-194: "Save as Template" hands the user the JSON of the run.
SaveTemplate ==
    /\ Editing
    /\ HasObjects(canvas_json)
    /\ UNCHANGED <<uploaded_file, uploaded_template>>
    /\ Script([NoInput EXCEPT !.save = TRUE])

\* Line 197: "Extract Data from All Pages".
Extract ==
    /\ MainShown
    /\ HasObjects(canvas_json)
    /\ \E outcome \in OutcomePatterns(Len(pdf_images), Len(canvas_json.objects),
                                      ~(last.op = "extract" /\ Failed(last.outcome))) :
          /\ UNCHANGED <<uploaded_file, uploaded_template>>
          /\ Script([NoInput EXCEPT !.extract = TRUE, !.outcome = outcome])

\* The run st.rerun() asked for.
Rerun ==
    /\ pc = "rerun"
    /\ UNCHANGED <<uploaded_file, uploaded_template>>
    /\ Script(NoInput)

Next ==
    \/ UploadPdf
    \/ ClearAndRestart
    \/ UploadTemplate
    \/ RemoveTemplate
    \/ DrawRect
    \/ SubmitNames
    \/ SaveTemplate
    \/ Extract
    \/ Rerun

Spec == Init /\ [][Next]_vars

\* The script runner starts every run st.rerun() asks for.
FairSpec == Spec /\ WF_vars(Rerun)

\* ------------------------------------------------------------ properties
\* The last run ran the extract handler (to its end, or to an exception).
Extracted == last.op \in {"extract", "exception"}

NoDuplicates(seq) == \A a, b \in 1..Len(seq) : seq[a] = seq[b] => a = b

\* Region j is the last region of the template to carry its field name.
LastOfItsName(names_list, j) ==
    \A k \in (j + 1)..Len(names_list) : names_list[k] # names_list[j]

\* The scaled box has non-positive width or height once truncated.
Degenerate(box) == PyInt(box.width) <= 0 \/ PyInt(box.height) <= 0

\* The text recognition gives for page i and scaled box `box`, cleaned.
Recognized(i, box) ==
    CleanText(ImageToString(pdf_images[i], PyInt(box.left), PyInt(box.top),
                            PyInt(box.width), PyInt(box.height)))

\* C1 as stated: after an extraction over P pages and R regions the table
\* has exactly P rows and exactly 1 + R columns, no column name twice,
\* whatever the field names are.
C1_RowsAndColumns ==
    Extracted =>
        /\ last.op = "extract"
        /\ Len(extracted_data.rows) = Len(pdf_images)
        /\ Len(extracted_data.columns) = 1 + Len(last.regions)
        /\ NoDuplicates(extracted_data.columns)

\* C1 amended: the table has exactly P rows and no column name twice; its
\* columns are "Page" and one column per distinct field name other than
\* "Page", so at most 1 + R, and exactly 1 + R only when the names are
\* pairwise distinct and none is "Page".
C1_RowsAndDistinctColumns ==
    Extracted =>
        /\ last.op = "extract"
        /\ Len(extracted_data.rows) = Len(pdf_images)
        /\ NoDuplicates(extracted_data.columns)
        /\ extracted_data.columns[1] = PageColumn
        /\ Range(extracted_data.columns) =
              {PageColumn} \cup Range(last.field_names_list)
        /\ Len(extracted_data.columns) <= 1 + Len(last.regions)
        /\ \A r \in 1..Len(extracted_data.rows) :
              DOMAIN extracted_data.rows[r] = Range(extracted_data.columns)

\* Two pages, two regions that carry one name: two columns, not three.
C1_Witness ==
    /\ last.op = "extract"
    /\ Len(pdf_images) = 2
    /\ Len(last.regions) = 2
    /\ last.field_names_list[1] = last.field_names_list[2]
    /\ Len(extracted_data.columns) = 2

\* Exactly the call for page fi, region fj failed, and recognition ran and
\* succeeded for every other page and region.
OnlyFailure(fi, fj) ==
    /\ last.outcome[fi][fj] # "ok"
    /\ \A j \in 1..Len(last.scaled_boxes) : ~Degenerate(last.scaled_boxes[j])

\* C2 as stated: if recognition or cropping fails for one region on one page
\* only, the table still has one row per page, the failing cell is the empty
\* string and every other cell holds the text recognized for its page and
\* region.
C2_PartialFailure ==
    Extracted =>
        \A fi \in 1..Len(pdf_images), fj \in 1..Len(last.regions) :
            OnlyFailure(fi, fj) =>
                /\ last.op = "extract"
                /\ Len(extracted_data.rows) = Len(pdf_images)
                /\ \A i \in 1..Len(pdf_images), j \in 1..Len(last.regions) :
                      extracted_data.rows[i][last.field_names_list[j]] =
                          IF i = fi /\ j = fj THEN StrCell(<< >>)
                          ELSE StrCell(Recognized(i, last.scaled_boxes[j]))

\* C2 amended: the same for every region that is the last of the template
\* to carry its field name; a region whose name a later region carries too
\* has no cell of its own, the later region's value being written over it.
C2_PartialFailureLastOfName ==
    Extracted =>
        \A fi \in 1..Len(pdf_images), fj \in 1..Len(last.regions) :
            OnlyFailure(fi, fj) =>
                /\ last.op = "extract"
                /\ Len(extracted_data.rows) = Len(pdf_images)
                /\ \A i \in 1..Len(pdf_images), j \in 1..Len(last.regions) :
                      /\ last.results[i][j].ret =
                            IF i = fi /\ j = fj THEN << >>
                            ELSE Recognized(i, last.scaled_boxes[j])
                      /\ LastOfItsName(last.field_names_list, j) =>
                            extracted_data.rows[i][last.field_names_list[j]] =
                                StrCell(last.results[i][j].ret)

\* Two pages, two regions with names of their own, and the call for page 2,
\* region 1 failed: its cell is empty, page 2's other cell is not.
C2_Witness ==
    /\ last.op = "extract"
    /\ Len(pdf_images) = 2
    /\ Len(last.regions) = 2
    /\ OnlyFailure(2, 1)
    /\ last.field_names_list[1] # last.field_names_list[2]
    /\ PageColumn \notin Range(last.field_names_list)
    /\ extracted_data.rows[2][last.field_names_list[1]] = StrCell(<< >>)
    /\ extracted_data.rows[2][last.field_names_list[2]] # StrCell(<< >>)

\* C3 as stated: a region whose scaled box is degenerate once truncated
\* gives the empty string on every page without recognition being invoked
\* and without an error; a region whose truncated width and height are both
\* positive has recognition invoked exactly once per page.
C3_DegenerateSkipped ==
    Extracted =>
        \A i \in 1..Len(pdf_images), j \in 1..Len(last.regions) :
            IF Degenerate(last.scaled_boxes[j])
            THEN /\ last.results[i][j].ret = << >>
                 /\ last.results[i][j].calls = 0
                 /\ ~last.results[i][j].raised
            ELSE last.results[i][j].calls = 1

\* C3 amended: for a degenerate box perform_ocr returns the empty string on
\* every page without invoking recognition and without raising; for a box
\* of positive truncated width and height recognition is invoked at most
\* once per page: exactly once when cropping and preprocessing succeed, and
\* not at all when they raise, perform_ocr then returning the empty string
\* without raising.
C3_DegenerateSkippedCropMayFail ==
    Extracted =>
        \A i \in 1..Len(pdf_images), j \in 1..Len(last.regions) :
            /\ ~last.results[i][j].raised
            /\ IF Degenerate(last.scaled_boxes[j])
               THEN /\ last.results[i][j].ret = << >>
                    /\ last.results[i][j].calls = 0
               ELSE IF last.outcome[i][j] = "crop"
               THEN /\ last.results[i][j].ret = << >>
                    /\ last.results[i][j].calls = 0
               ELSE last.results[i][j].calls = 1

\* A degenerate box beside one of positive size whose crop failed on one
\* page and was recognized on the other.
C3_Witness ==
    /\ last.op = "extract"
    /\ Len(pdf_images) = 2
    /\ \E j, k \in 1..Len(last.regions) :
          /\ Degenerate(last.scaled_boxes[j])
          /\ RPos(last.scaled_boxes[j].height)
          /\ last.results[2][j].calls = 0
          /\ ~Degenerate(last.scaled_boxes[k])
          /\ last.outcome[1][k] = "crop"
          /\ last.results[1][k].calls = 0
          /\ last.results[2][k].calls = 1

\* C4: the mapping of the extraction sends the region that covers the whole
\* drawing surface, (0, 0, width, height) with the width and height given to
\* st_canvas, to exactly (0, 0, source width, source height) of the template
\* page.
C4_FullCanvasMapsToFullPage ==
    last.op = "extract" =>
        \A j \in 1..Len(last.regions) :
            last.regions[j] =
                Region(RInt(0), RInt(0), RInt(SurfaceWidth),
                       RInt(SurfaceHeight(last.bg_image)))
            => last.scaled_boxes[j] =
                   Region(RInt(0), RInt(0), RInt(last.bg_image.width),
                          RInt(last.bg_image.height))

\* C5: when the regions carry pairwise distinct field names, the columns are
\* "Page" followed by the field names in region order, the k-th row has Page
\* value k, and a region with no stored name contributes Field_<ordinal+1>.
C5_ColumnsInRegionOrder ==
    (last.op = "extract" /\ NoDuplicates(last.field_names_list)) =>
        /\ extracted_data.columns = <<PageColumn>> \o last.field_names_list
        /\ Len(extracted_data.rows) = Len(pdf_images)
        /\ \A k \in 1..Len(extracted_data.rows) :
              extracted_data.rows[k][PageColumn] = IntCell(k)
        /\ \A j \in 1..Len(last.regions) :
              NamingKey(j - 1, last.regions[j]) \notin DOMAIN field_names
              => last.field_names_list[j] = DefaultName(j - 1)

\* C6: loading the document "Save as Template" produced restores the region
\* data and the field-name mapping that were saved, nothing added, dropped
\* or altered.  (After the saving run the session holds the saved template,
\* so the load must leave both as they are.)
C6_TemplateRoundTrip ==
    [][(/\ last.op = "save"
        /\ ~uploaded_template.present
        /\ uploaded_template'.present
        /\ uploaded_template'.doc = last.data)
       => /\ last'.op = "load"
          /\ canvas_json' = canvas_json
          /\ field_names' = field_names]_vars

\* A saved template of two regions, a sliver at a fractional position among
\* them and a typed name among its names, has been loaded.
C6_Witness ==
    /\ last.op = "load"
    /\ Len(uploaded_template.doc.regions.objects) = 2
    /\ canvas_json.objects[1] = Sliver
    /\ field_names[NamingKey(0, Sliver)] = <<"Name">>
    /\ NamingKey(1, canvas_json.objects[2]) \in DOMAIN field_names

\* The keys of a JSON object's members.
MemberKeys(members) == {members[k][1] : k \in 1..Len(members)}

\* C7: loading a template replaces the session's regions and field names
\* whatever they were: the regions are the document's `regions` (none if the
\* key is missing), the mapping is the document's `field_names` (empty if
\* the key is missing), and a missing key raises no error.
C7_LoadReplaces ==
    uploaded_template.present =>
        LET doc == uploaded_template.doc
        IN  /\ last.op = "load"
            /\ IF doc.has_regions
               THEN /\ canvas_json.isNone = doc.regions.isNone
                    /\ Len(canvas_json.objects) = Len(doc.regions.objects)
                    /\ \A k \in 1..Len(canvas_json.objects) :
                          JsonRect(canvas_json.objects[k]) = doc.regions.objects[k]
               ELSE canvas_json = NoCanvas
            /\ IF doc.has_field_names
               THEN /\ DOMAIN field_names = MemberKeys(doc.field_names)
                    /\ \A k \in 1..Len(doc.field_names) :
                          field_names[doc.field_names[k][1]] = doc.field_names[k][2]
               ELSE field_names = EmptyDict

\* A template file without its `field_names` key has been loaded: the
\* session holds its one region and no name.
C7_Witness ==
    /\ last.op = "load"
    /\ uploaded_template.doc.has_regions
    /\ ~uploaded_template.doc.has_field_names
    /\ canvas_json = CanvasJson(<<Sliver>>)
    /\ field_names = EmptyDict

\* The names the user submitted in the run that `l` records.
TypedIn(l) == IF l.op = "main" THEN l.typed ELSE EmptyDict

\* The run recorded by `l` went through the main body.
MainRan(l) == l.op \in {"main", "save", "extract", "exception"}

\* C8: over script runs that leave the region set as it is, every region
\* keeps its identity key, so the name stored for it stays the stored name
\* unless the user submits another, a submitted name is stored under that
\* key, and the key extraction looks up is that key as well: the column name
\* extraction uses for a region is the name stored for it.
C8_IdentityStable ==
    /\ [][(MainRan(last') /\ canvas_json' = canvas_json) =>
            \A i \in 0..(Len(canvas_json.objects) - 1) :
                LET key == NamingKey(i, canvas_json.objects[i + 1])
                IN  /\ key \in DOMAIN field_names'
                    /\ i \in DOMAIN TypedIn(last') =>
                          field_names'[key] = TypedIn(last')[i]
                    /\ (i \notin DOMAIN TypedIn(last') /\ key \in DOMAIN field_names)
                          => field_names'[key] = field_names[key]]_vars
    /\ [](last.op = "extract" =>
            \A j \in 1..Len(last.regions) :
                /\ NamingKey(j - 1, last.regions[j]) \in DOMAIN field_names
                /\ last.field_names_list[j] =
                      field_names[NamingKey(j - 1, last.regions[j])])

\* The sliver at (10.5, 20.5) is the second region, was named "Name" by the
\* user, and extraction used "Name" as its column.
C8_Witness ==
    /\ last.op = "extract"
    /\ Len(last.regions) = 2
    /\ last.regions[2] = Sliver
    /\ field_names[<<"region", 1, 10, 20>>] = <<"Name">>
    /\ last.field_names_list[2] = <<"Name">>
    /\ last.field_names_list[1] = DefaultName(0)

\* C9: once a template file has been supplied, the reruns it triggers end:
\* the script eventually completes a run, which goes through the main body,
\* and waits for the next user action.
C9_TemplateLoadCompletes ==
    uploaded_template.present ~> (pc = "idle")

\* C10: when rasterizing the uploaded PDF fails at any page, the page list
\* stays empty, no page rasterized before the failure is kept, and regions,
\* field names and extraction result are left as they were.
C10_RasterizeFailure ==
    [][(/\ pdf_images = << >>
        /\ uploaded_file'.present
        /\ "corrupt" \in Range(uploaded_file'.pages)
        /\ last'.op # "clear")
       => /\ pdf_images' = << >>
          /\ last'.op = "nopdf"
          /\ last'.pdf = "failed"
          /\ canvas_json' = canvas_json
          /\ field_names' = field_names
          /\ extracted_data' = extracted_data]_vars

\* A two-page PDF whose second page is unreadable was uploaded: no page is
\* held, although the first could be rasterized.
C10_Witness ==
    /\ uploaded_file.present
    /\ uploaded_file.pages = <<"a4", "corrupt">>
    /\ last.op = "nopdf"
    /\ last.pdf = "failed"
    /\ pdf_images = << >>

=============================================================================
